---- MODULE Spec2Model ----
(***************************************************************************)
(* A model of tokenize_all.py: the construction of a TokenizableLanguage   *)
(* (the merge of the default TokenIdentifiers with the caller's) and the   *)
(* scanning loop of TokenizableLanguage.tokenize.                          *)
(*                                                                         *)
(* A text is a sequence of one-character strings.  A regular expression is *)
(* named by its source text (without the leading "^": re.match anchors     *)
(* every pattern at the start of the text it is given) and its meaning is  *)
(* given by re_match, which computes what Python's backtracking matcher    *)
(* computes for that pattern.                                              *)
(***************************************************************************)
EXTENDS Integers, Sequences, FiniteSets

VARIABLES overrides, identifiers, text, code, tokens, pos, line_number,
          line_pos, pc, result

vars == <<overrides, identifiers, text, code, tokens, pos, line_number,
          line_pos, pc, result>>

(***************************************************************************)
(* Bounds of the model.                                                    *)
(***************************************************************************)
\* longest input text of Spec
MaxLen == 3
\* longest input text of SpecLines
MaxLineLen == 4
\* longest override list of SpecProfile
MaxOverrides == 3
\* iterations explored beyond one per character of the text, for a loop
\* that emits tokens without consuming anything
MaxSpin == 2

(***************************************************************************)
(* Characters and the character classes of Python's re (str patterns).     *)
(***************************************************************************)
LowerChars == {"i", "f"}
UpperChars == {"A"}
DigitChars == {"1"}
LetterChars == LowerChars \cup UpperChars
\* \w
WordChars == LetterChars \cup DigitChars \cup {"_"}
\* \s
SpaceChars == {" ", "\n", "\t", "\r"}
\* the alternatives of the default "symbol" pattern
SymbolChars == {"=", "+", "-", "*", "<", ">", "/", "%", "&", "|", "!", ".", ":"}
\* every character the model knows; a negated class [^x] is Chars \ {x}
Chars == WordChars \cup SpaceChars \cup SymbolChars \cup
         {"(", ")", "{", "}", "[", "]", ";", ",", "\"", "'", "#", "@"}

(***************************************************************************)
(* Helpers on texts.                                                       *)
(***************************************************************************)
\* s[n:] of Python
Drop(s, n) == SubSeq(s, n + 1, Len(s))

\* s[a:b] of Python
Slice(s, a, b) == SubSeq(s, a + 1, b)

RECURSIVE Run(_, _, _)
\* the number of consecutive characters of s, from the 1-based index i on,
\* that lie in S: what a greedy S* consumes at i
Run(s, i, S) ==
  IF i <= Len(s) /\ s[i] \in S THEN 1 + Run(s, i + 1, S) ELSE 0

\* whether s continues with the word w at offset k
StartsWith(s, k, w) ==
  /\ k + Len(w) <= Len(s)
  /\ \A j \in 1..Len(w) : s[k + j] = w[j]

\* \b at offset k of s: exactly one of the characters around it is a \w
Boundary(s, k) ==
  LET before == k >= 1 /\ k <= Len(s) /\ s[k] \in WordChars
      after == k + 1 <= Len(s) /\ s[k + 1] \in WordChars
  IN before # after

Max(S) == CHOOSE x \in S : \A y \in S : y <= x

RECURSIVE SeqsUpTo(_, _)
\* every sequence over S of length at most n
SeqsUpTo(S, n) ==
  IF n = 0 THEN {<<>>}
  ELSE LET shorter == SeqsUpTo(S, n - 1)
       IN shorter \cup {Append(s, c) : s \in {t \in shorter : Len(t) = n - 1}, c \in S}

RECURSIVE Reverse(_)
\* list.reverse()
Reverse(s) ==
  IF s = <<>> THEN <<>> ELSE Append(Reverse(Tail(s)), Head(s))

RECURSIVE Count(_, _)
\* the number of occurrences of c in s
Count(s, c) ==
  IF s = <<>> THEN 0 ELSE (IF Head(s) = c THEN 1 ELSE 0) + Count(Tail(s), c)

(***************************************************************************)
(* Matching.  A match is [ok, end, g1]: whether the pattern matched at the *)
(* start of the text, the end offset of group 0, and the span <<a, b>> of  *)
(* group 1 (offsets, the group being s[a:b]).                              *)
(***************************************************************************)
NoMatch == [ok |-> FALSE, end |-> 0, g1 |-> <<0, 0>>]

Matched(e) == [ok |-> TRUE, end |-> e, g1 |-> <<0, 0>>]

MatchedGroup(e, a, b) == [ok |-> TRUE, end |-> e, g1 |-> <<a, b>>]

\* a one-character pattern
MatchChar(s, c) ==
  IF Len(s) >= 1 /\ s[1] = c THEN Matched(1) ELSE NoMatch

\* S+
MatchRun(s, S) ==
  IF Run(s, 1, S) >= 1 THEN Matched(Run(s, 1, S)) ELSE NoMatch

\* first S* \b, after a first character of class F: the greedy S* gives back
\* characters until \b holds
MatchWord(s, F, S) ==
  IF Len(s) >= 1 /\ s[1] \in F
  THEN LET ends == {e \in 1..(1 + Run(s, 2, S)) : Boundary(s, e)}
       IN IF ends = {} THEN NoMatch ELSE Matched(Max(ends))
  ELSE NoMatch

\* S+ \b
MatchRunWord(s, S) ==
  LET ends == {e \in 1..Run(s, 1, S) : Boundary(s, e)}
  IN IF ends = {} THEN NoMatch ELSE Matched(Max(ends))

\* ([A-Za-z_]\w*)\s*\(  with group 1 the name: the longest name, then the
\* longest blank run, after which a "(" follows
MatchFunction(s) ==
  IF Len(s) >= 1 /\ s[1] \in LetterChars \cup {"_"}
  THEN LET names == {w \in 1..(1 + Run(s, 2, WordChars)) :
                       \E b \in 0..Run(s, w + 1, SpaceChars) :
                         w + b + 1 <= Len(s) /\ s[w + b + 1] = "("}
       IN IF names = {} THEN NoMatch
          ELSE LET w == Max(names)
                   b == Max({x \in 0..Run(s, w + 1, SpaceChars) :
                               w + x + 1 <= Len(s) /\ s[w + x + 1] = "("})
               IN MatchedGroup(w + b + 1, 0, w)
  ELSE NoMatch

\* -?\d+(\.\d+)?
MatchNumber(s) ==
  LET sign == IF Len(s) >= 1 /\ s[1] = "-" THEN 1 ELSE 0
      int == Run(s, sign + 1, DigitChars)
      dot == sign + int + 1
      frac == IF dot <= Len(s) /\ s[dot] = "." THEN Run(s, dot + 1, DigitChars) ELSE 0
  IN IF int = 0 THEN NoMatch
     ELSE IF frac >= 1 THEN Matched(dot + frac)
     ELSE Matched(sign + int)

\* (a|b|...)+ : group 1 is what the last repetition matched, one character
MatchSymbol(s) ==
  LET n == Run(s, 1, SymbolChars)
  IN IF n = 0 THEN NoMatch ELSE MatchedGroup(n, n - 1, n)

\* "([^"]|\\")*" : [^"] is tried first and takes every character that is
\* not a quote (a backslash too), so the repetition stops at the first
\* quote after the opening one, and that quote closes the string
MatchString(s, q) ==
  IF Len(s) >= 1 /\ s[1] = q
  THEN LET n == Run(s, 2, Chars \ {q})
       IN IF n + 2 <= Len(s) /\ s[n + 2] = q
          THEN Matched(n + 2)
          ELSE NoMatch
  ELSE NoMatch

\* a prefix w, then [^\n]*
MatchLineComment(s, w) ==
  IF StartsWith(s, 0, w)
  THEN Matched(Len(w) + Run(s, Len(w) + 1, Chars \ {"\n"}))
  ELSE NoMatch

RECURSIVE MatchKeyword(_, _)
\* (w1|w2|...)\b : the first alternative, in order, after which \b holds
MatchKeyword(s, words) ==
  IF words = <<>> THEN NoMatch
  ELSE IF StartsWith(s, 0, Head(words)) /\ Boundary(s, Len(Head(words)))
       THEN MatchedGroup(Len(Head(words)), 0, Len(Head(words)))
       ELSE MatchKeyword(s, Tail(words))

\* the alternatives of the Go keyword list that the letters of the model spell
KeywordWords == << <<"i", "f">> >>

\* regex.match(pattern, s)
re_match(regex, s) ==
  CASE regex = "[a-z_]\\w*\\b" -> MatchWord(s, LowerChars \cup {"_"}, WordChars)
    [] regex = "\\(" -> MatchChar(s, "(")
    [] regex = "\\)" -> MatchChar(s, ")")
    [] regex = "\\{" -> MatchChar(s, "{")
    [] regex = "\\}" -> MatchChar(s, "}")
    [] regex = ";" -> MatchChar(s, ";")
    [] regex = "\\[" -> MatchChar(s, "[")
    [] regex = "\\]" -> MatchChar(s, "]")
    [] regex = "\\n+" -> MatchRun(s, {"\n"})
    [] regex = "-?\\d+(\\.\\d+)?" -> MatchNumber(s)
    [] regex = "(=|\\+|\\-|\\*|<|>|/|%|&|\\||!|\\.|\\:)+" -> MatchSymbol(s)
    [] regex = "\"([^\"]|\\\\\")*\"" -> MatchString(s, "\"")
    [] regex = "[A-Z_]+\\b" -> MatchRunWord(s, UpperChars \cup {"_"})
    [] regex = "[A-Z](\\w)*\\b" -> MatchWord(s, UpperChars, WordChars)
    [] regex = "([A-Za-z_]\\w*)\\s*\\(" -> MatchFunction(s)
    [] regex = " +" -> MatchRun(s, {" "})
    [] regex = "//[^\\n]*" -> MatchLineComment(s, <<"/", "/">>)
    [] regex = "," -> MatchChar(s, ",")
    [] regex = "--[^\\n]*" -> MatchLineComment(s, <<"-", "-">>)
    [] regex = "![^\\n]*" -> MatchLineComment(s, <<"!">>)
    [] regex = "(...|if|...)\\b" -> MatchKeyword(s, KeywordWords)
    [] regex = "(nil)\\b" -> MatchKeyword(s, << <<"n", "i", "l">> >>)
    [] regex = "'[^']*'" -> MatchString(s, "'")
    [] regex = " *" -> Matched(Run(s, 1, {" "}))
    [] OTHER -> NoMatch

\* match.group(g)
group(m, s, g) ==
  IF g = 0 THEN Slice(s, 0, m.end) ELSE Slice(s, m.g1[1], m.g1[2])

(***************************************************************************)
(* TokenIdentifier and the default identifiers.                            *)
(***************************************************************************)
\* TokenIdentifier(token_type, regex, group): the "^" the constructor puts
\* in front of an unanchored pattern is left out of the pattern's name
TokenIdentifier(token_type, regex, g) ==
  [type |-> token_type, regex |-> regex, group |-> g]

default_identifiers ==
  << TokenIdentifier("identifier", "[a-z_]\\w*\\b", 0),
     TokenIdentifier("left parentheses", "\\(", 0),
     TokenIdentifier("right parentheses", "\\)", 0),
     TokenIdentifier("left brace", "\\{", 0),
     TokenIdentifier("right brace", "\\}", 0),
     TokenIdentifier("semicolon", ";", 0),
     TokenIdentifier("left bracket", "\\[", 0),
     TokenIdentifier("right bracket", "\\]", 0),
     TokenIdentifier("newline", "\\n+", 0),
     TokenIdentifier("number", "-?\\d+(\\.\\d+)?", 0),
     TokenIdentifier("symbol", "(=|\\+|\\-|\\*|<|>|/|%|&|\\||!|\\.|\\:)+", 1),
     TokenIdentifier("string", "\"([^\"]|\\\\\")*\"", 0),
     TokenIdentifier("constant", "[A-Z_]+\\b", 0),
     TokenIdentifier("class name", "[A-Z](\\w)*\\b", 0),
     TokenIdentifier("function", "([A-Za-z_]\\w*)\\s*\\(", 1),
     TokenIdentifier("whitespace", " +", 0),
     TokenIdentifier("comment", "//[^\\n]*", 0),
     TokenIdentifier("comma", ",", 0) >>

\* the identifiers of the language definitions that the model uses
GoKeyword == TokenIdentifier("keyword", "(...|if|...)\\b", 0)

LuaKeywordLiteral == TokenIdentifier("keyword literal", "(nil)\\b", 0)

LuaComment == TokenIdentifier("comment", "--[^\\n]*", 0)

FortranComment == TokenIdentifier("comment", "![^\\n]*", 0)

Go == <<GoKeyword>>

\* identifiers a caller may pass: a language whose strings are quoted with
\* ', and a whitespace pattern written with * instead of +
SingleQuoteString == TokenIdentifier("string", "'[^']*'", 0)

StarWhitespace == TokenIdentifier("whitespace", " *", 0)

(***************************************************************************)
(* TokenizableLanguage.__init__: a dict keyed by type, in insertion order. *)
(***************************************************************************)
\* the index of key k in the dict d (a sequence of identifiers), or 0
DictIndex(d, k) ==
  IF \E i \in 1..Len(d) : d[i].type = k
  THEN CHOOSE i \in 1..Len(d) : d[i].type = k
  ELSE 0

\* DictSet, were the dict a plain list: a second identifier of a type is
\* added and the first one stays
DictSetAppend(d, identifier) == Append(d, identifier)

\* d[identifier.type] = identifier: an existing key keeps its place
DictSet(d, identifier) ==
  IF DictIndex(d, identifier.type) # 0
  THEN [d EXCEPT ![DictIndex(d, identifier.type)] = identifier]
  ELSE Append(d, identifier)

RECURSIVE DictSetAll(_, _)
\* the two for loops: DictSet for every identifier of a list, in order
DictSetAll(d, list) ==
  IF list = <<>> THEN d ELSE DictSetAll(DictSet(d, Head(list)), Tail(list))

\* MergeIdentifiers without the final reverse()
MergeIdentifiersNoReverse(ids) ==
  DictSetAll(DictSetAll(<<>>, default_identifiers), ids)

\* self.identifiers as __init__ leaves it
MergeIdentifiers(ids) ==
  Reverse(DictSetAll(DictSetAll(<<>>, default_identifiers), ids))

(***************************************************************************)
(* TokenizableLanguage.tokenize.                                           *)
(***************************************************************************)
RECURSIVE StripCR(_)
\* code.replace("\r", "")
StripCR(s) ==
  IF s = <<>> THEN <<>>
  ELSE IF Head(s) = "\r" THEN StripCR(Tail(s))
  ELSE <<Head(s)>> \o StripCR(Tail(s))

\* whether an identifier's pattern matches at the start of s
Matches(identifier, s) == re_match(identifier.regex, s).ok

RECURSIVE FirstMatchFrom(_, _, _)
FirstMatchFrom(ids, s, i) ==
  IF i > Len(ids) THEN 0
  ELSE IF Matches(ids[i], s) THEN i
  ELSE FirstMatchFrom(ids, s, i + 1)

\* FirstMatch as a longest-match lexer would choose: the identifier whose
\* pattern matches the longest prefix (the first of those)
LongestMatch(ids, s) ==
  LET hits == {i \in 1..Len(ids) : Matches(ids[i], s)}
      len(i) == re_match(ids[i].regex, s).end
      best == {i \in hits : \A j \in hits : len(j) <= len(i)}
  IN IF hits = {} THEN 0 ELSE CHOOSE i \in best : \A j \in best : i <= j

\* the for loop over the identifiers: the index of the first one whose
\* pattern matches s (the loop breaks there), or 0 (match_found stays False)
FirstMatch(ids, s) == FirstMatchFrom(ids, s, 1)

\* the list the for loop walks
SearchOrder == identifiers \o default_identifiers

\* Consumed, were the whole match removed instead of the value
ConsumedFullMatch(match, str_match) == match.end

\* len(str_match): what the loop removes from code and adds to pos
Consumed(match, str_match) == Len(str_match)

Token(type, value, full_match, start, ln, ls) ==
  [type |-> type, value |-> value, full_match |-> full_match,
   start |-> start, line_number |-> ln, line_start |-> ls]

NoResult == [kind |-> "none"]

\* TokenizableLanguage(identifiers = overrides)
Construct ==
  /\ pc = "new"
  /\ identifiers' = MergeIdentifiers(overrides)
  /\ pc' = "ready"
  /\ UNCHANGED <<overrides, text, code, tokens, pos, line_number, line_pos, result>>

\* Tokenize, were positions counted from one
TokenizeFromOne ==
  /\ pc = "ready"
  /\ code' = StripCR(text)
  /\ tokens' = <<>>
  /\ pos' = 1
  /\ line_number' = 1
  /\ line_pos' = 0
  /\ pc' = "scan"
  /\ UNCHANGED <<overrides, identifiers, text, result>>

\* the entry of tokenize(text), up to the while loop
Tokenize ==
  /\ pc = "ready"
  /\ code' = StripCR(text)
  /\ tokens' = <<>>
  /\ pos' = 0
  /\ line_number' = 1
  /\ line_pos' = 0
  /\ pc' = "scan"
  /\ UNCHANGED <<overrides, identifiers, text, result>>

\* one iteration of the while loop in which an identifier matches
ScanEmit ==
  /\ pc = "scan"
  /\ code # <<>>
  /\ Len(tokens) < Len(text) + MaxSpin
  /\ LET found == FirstMatch(SearchOrder, code)
     IN /\ found # 0
        /\ LET identifier == SearchOrder[found]
               match == re_match(identifier.regex, code)
               str_match == group(match, code, identifier.group)
               full_match == [re |-> identifier.regex, group0 |-> group(match, code, 0)]
               token == Token(identifier.type, str_match, full_match, pos,
                              line_number, line_pos)
               n == Consumed(match, str_match)
           IN /\ code' = Drop(code, n)
              /\ pos' = pos + n
              /\ tokens' = Append(tokens, token)
              /\ IF token.type = "newline"
                 THEN line_number' = line_number + n /\ line_pos' = 0
                 ELSE line_number' = line_number /\ line_pos' = line_pos + n
  /\ UNCHANGED <<overrides, identifiers, text, pc, result>>

\* ScanFail, were the tokens found so far returned instead
ScanFailSalvage ==
  /\ pc = "scan"
  /\ code # <<>>
  /\ FirstMatch(SearchOrder, code) = 0
  /\ result' = [kind |-> "return", tokens |-> tokens]
  /\ pc' = "done"
  /\ UNCHANGED <<overrides, identifiers, text, code, tokens, pos, line_number, line_pos>>

\* one iteration in which none matches: raise Exception("Unrecognized
\* Token: " + code)
ScanFail ==
  /\ pc = "scan"
  /\ code # <<>>
  /\ FirstMatch(SearchOrder, code) = 0
  /\ result' = [kind |-> "raise", message |-> <<"Unrecognized Token: ">> \o code]
  /\ pc' = "error"
  /\ UNCHANGED <<overrides, identifiers, text, code, tokens, pos, line_number, line_pos>>

\* the loop ends: return tokens
Return ==
  /\ pc = "scan"
  /\ code = <<>>
  /\ result' = [kind |-> "return", tokens |-> tokens]
  /\ pc' = "done"
  /\ UNCHANGED <<overrides, identifiers, text, code, tokens, pos, line_number, line_pos>>

Next == Construct \/ Tokenize \/ ScanEmit \/ ScanFail \/ Return

(***************************************************************************)
(* Specifications.  Each starts before the language is constructed, with   *)
(* the override list and the text that will be given.                      *)
(***************************************************************************)
InitWith(lists, texts) ==
  /\ overrides \in lists
  /\ text \in texts
  /\ identifiers = <<>>
  /\ code = <<>>
  /\ tokens = <<>>
  /\ pos = 0
  /\ line_number = 1
  /\ line_pos = 0
  /\ pc = "new"
  /\ result = NoResult

\* the characters of the texts of Spec
Alphabet == {"i", "f", "1", "(", " ", "\n", "-", "\""}

\* the languages of Spec
Profiles == {<<>>, Go, <<SingleQuoteString>>, <<StarWhitespace>>}

Init == InitWith(Profiles, SeqsUpTo(Alphabet, MaxLen))

Spec == Init /\ [][Next]_vars

\* line breaks, carriage returns and symbol runs, with the default
\* identifiers alone
LineAlphabet == {"i", "\"", "\n", "\r", "+", "-"}

InitLines == InitWith({<<>>}, SeqsUpTo(LineAlphabet, MaxLineLen))

SpecLines == InitLines /\ [][Next]_vars

\* every override list over a few identifiers, on a few texts
CandidateIdentifiers == {GoKeyword, LuaKeywordLiteral, LuaComment, FortranComment}

InitProfile ==
  InitWith(SeqsUpTo(CandidateIdentifiers, MaxOverrides),
           {<<>>, <<"i", "f">>, <<"-", "-", "\"">>})

SpecProfile == InitProfile /\ [][Next]_vars

(***************************************************************************)
(* What the properties below speak of.                                     *)
(***************************************************************************)
\* the text the loop scans
Scanned == StripCR(text)

Constructed == pc # "new"

Ended == pc \in {"done", "error"}

DefaultTypes == {default_identifiers[i].type : i \in 1..Len(default_identifiers)}

OverrideTypes == {overrides[i].type : i \in 1..Len(overrides)}

\* the last identifier of type c in the override list
LastOverride(c) ==
  overrides[Max({i \in 1..Len(overrides) : overrides[i].type = c})]

DefaultOf(c) == default_identifiers[DictIndex(default_identifiers, c)]

\* the identifier a language is to hold for the category c
Resolved(c) == IF c \in OverrideTypes THEN LastOverride(c) ELSE DefaultOf(c)

\* the indices of the override list at which a type appears for the first
\* time and is no default type, in increasing order: k of them before i
NewBefore(i) ==
  Cardinality({j \in 1..(i - 1) :
                 /\ overrides[j].type \notin DefaultTypes
                 /\ \A h \in 1..(j - 1) : overrides[h].type # overrides[j].type})

IsFirstNew(i) ==
  /\ overrides[i].type \notin DefaultTypes
  /\ \A h \in 1..(i - 1) : overrides[h].type # overrides[i].type

NewCount == NewBefore(Len(overrides) + 1)

RECURSIVE KeptOverrides(_)
\* the override list with, of several identifiers of one type, the last
KeptOverrides(ids) ==
  IF ids = <<>> THEN <<>>
  ELSE IF \E j \in 2..Len(ids) : ids[j].type = ids[1].type
       THEN KeptOverrides(Tail(ids))
       ELSE <<Head(ids)>> \o KeptOverrides(Tail(ids))

RECURSIVE DefaultsNotOverridden(_)
DefaultsNotOverridden(ids) ==
  IF ids = <<>> THEN <<>>
  ELSE IF Head(ids).type \in OverrideTypes
       THEN DefaultsNotOverridden(Tail(ids))
       ELSE <<Head(ids)>> \o DefaultsNotOverridden(Tail(ids))

C2_OnePerCategory ==
  Constructed =>
    /\ \A c \in DefaultTypes \cup OverrideTypes :
         /\ Cardinality({i \in 1..Len(identifiers) : identifiers[i].type = c}) = 1
         /\ \E i \in 1..Len(identifiers) : identifiers[i] = Resolved(c)
    /\ \A i \in 1..Len(identifiers) :
         identifiers[i].type \in DefaultTypes \cup OverrideTypes
    /\ \A i, j \in 1..Len(identifiers) :
         identifiers[i].type = identifiers[j].type => i = j

\* a language was built from two different overrides of one default type
C2_Witness ==
  /\ pc = "ready"
  /\ \E i, j \in 1..Len(overrides) :
       /\ i < j
       /\ overrides[i].type = overrides[j].type
       /\ overrides[i] # overrides[j]
       /\ overrides[i].type \in DefaultTypes

(***************************************************************************)
(* C3.                                                                     *)
(***************************************************************************)
FunctionRegex == "([A-Za-z_]\\w*)\\s*\\("

\* the k-th token comes from the default function identifier
IsFunctionToken(k) ==
  /\ tokens[k].type = "function"
  /\ tokens[k].full_match.re = FunctionRegex

\* the offset of the "(" that the match of the k-th token ends with
ParenOffset(k) == tokens[k].start + Len(tokens[k].full_match.group0) - 1

LineBegin(s, n) == Max({0} \cup {j \in 1..n : s[j] = "\n"})

\* C4: every token's line_number is one more than the number of newlines
\* of the scanned text before the token's start, and its line_start is the
\* offset of its start within that line.
C4_LineAndColumn ==
  \A k \in 1..Len(tokens) :
    /\ tokens[k].line_number = 1 + Count(Slice(Scanned, 0, tokens[k].start), "\n")
    /\ tokens[k].line_start = tokens[k].start - LineBegin(Scanned, tokens[k].start)

(***************************************************************************)
(* C5.                                                                     *)
(***************************************************************************)
\* C5: every token's start is the index of its first character in the input
\* text: the input's characters at [start, start + len(value)) are value.
C5_StartIndexesInput ==
  \A k \in 1..Len(tokens) :
    /\ tokens[k].start + Len(tokens[k].value) <= Len(text)
    /\ Slice(text, tokens[k].start, tokens[k].start + Len(tokens[k].value))
         = tokens[k].value

(***************************************************************************)
(* C6.                                                                     *)
(***************************************************************************)
\* no identifier of the list the loop walks matches s
NoneMatches(s) ==
  \A i \in 1..Len(SearchOrder) : ~Matches(SearchOrder[i], s)

RECURSIVE ValueLengths(_)
ValueLengths(toks) ==
  IF toks = <<>> THEN 0 ELSE Len(Head(toks).value) + ValueLengths(Tail(toks))

\* C6: a scan that ends with text left unscanned ends with the one error,
\* whose message carries the text from the failing position on, where no
\* identifier matches; nothing of that text was consumed, and no token list
\* is returned.  A scan ends with the error only so.
C6_FailureReportsRemainder ==
  /\ (Ended /\ Drop(Scanned, pos) # <<>>) =>
       /\ pc = "error"
       /\ result = [kind |-> "raise",
                    message |-> <<"Unrecognized Token: ">> \o Drop(Scanned, pos)]
       /\ NoneMatches(Drop(Scanned, pos))
       /\ pos = ValueLengths(tokens)
  /\ pc = "error" => (Drop(Scanned, pos) # <<>> /\ result.kind = "raise")
  /\ result.kind = "return" => pc = "done"

\* a scan has failed after it had emitted tokens
C6_Witness ==
  /\ pc = "error"
  /\ Len(tokens) >= 2
  /\ pos >= 2
  /\ result.kind = "raise"

(***************************************************************************)
(* C7.                                                                     *)
(***************************************************************************)
\* C7: tokenize terminates in every language and on every text: an
\* iteration of the while loop ends the scan (the return, or the error) or
\* shortens the text that is left, so no scan runs for ever.  (What an
\* iteration does depends on code alone: one that leaves code as it was is
\* repeated for ever.)
C7_EveryIterationConsumes ==
  [][pc = "scan" => (pc' \in {"done", "error"} \/ Len(code') < Len(code))]_vars

(***************************************************************************)
(* C8.                                                                     *)
(***************************************************************************)
NoIdentifier == [type |-> "", regex |-> "", group |-> 0]

\* the identifier that fires on s when the loop walks the list ids
Fires(ids, s) ==
  IF \E i \in 1..Len(ids) : Matches(ids[i], s)
  THEN ids[CHOOSE i \in 1..Len(ids) :
             Matches(ids[i], s) /\ \A j \in 1..(i - 1) : ~Matches(ids[j], s)]
  ELSE NoIdentifier

Scanning == pc = "scan" /\ code # <<>>

\* C8, as claimed: the second pass over default_identifiers changes
\* nothing: at every position of every scan, walking self.identifiers alone
\* gives what walking self.identifiers + default_identifiers gives (the same
\* identifier, or none).
C8_FallbackRedundant ==
  Scanning => Fires(identifiers, code) = Fires(identifiers \o default_identifiers, code)

(***************************************************************************)
(* C9.                                                                     *)
(***************************************************************************)
\* C9: in a returned token list the first start is 0, every later start is
\* the start before it plus the length of the value before it, and the
\* starts increase strictly.
C9_StartsChain ==
  pc = "done" =>
    LET t == result.tokens
    IN /\ t # <<>> => t[1].start = 0
       /\ \A k \in 1..(Len(t) - 1) :
            /\ t[k + 1].start = t[k].start + Len(t[k].value)
            /\ t[k + 1].start > t[k].start

\* a list was returned in which a value is shorter than its match
C9_Witness ==
  /\ pc = "done"
  /\ Len(result.tokens) >= 3
  /\ \E k \in 1..(Len(result.tokens) - 1) :
       Len(result.tokens[k].value) < Len(result.tokens[k].full_match.group0)

(***************************************************************************)
(* C10.                                                                    *)
(***************************************************************************)
\* the text that was left when the k-th token was emitted
LeftAt(k) == Drop(Scanned, tokens[k].start)

\* C10: every token comes from the first identifier, in the order the loop
\* walks them, whose pattern matches the text left at the token's start: no
\* identifier before it matches that text, and the token's value and match
\* are that identifier's on that text, whatever a later identifier matches.
C10_FirstMatchWins ==
  \A k \in 1..Len(tokens) :
    \E i \in 1..Len(SearchOrder) :
      /\ SearchOrder[i].type = tokens[k].type
      /\ SearchOrder[i].regex = tokens[k].full_match.re
      /\ Matches(SearchOrder[i], LeftAt(k))
      /\ \A j \in 1..(i - 1) : ~Matches(SearchOrder[j], LeftAt(k))
      /\ tokens[k].full_match.group0 =
           group(re_match(SearchOrder[i].regex, LeftAt(k)), LeftAt(k), 0)
      /\ tokens[k].value =
           group(re_match(SearchOrder[i].regex, LeftAt(k)), LeftAt(k), SearchOrder[i].group)

\* a token was emitted at a text of which a later identifier matches a
\* longer prefix
C10_Witness ==
  \E k \in 1..Len(tokens) :
    \E j \in 1..Len(SearchOrder) :
      /\ Matches(SearchOrder[j], LeftAt(k))
      /\ re_match(SearchOrder[j].regex, LeftAt(k)).end > Len(tokens[k].full_match.group0)
      /\ \E i \in 1..(j - 1) :
           /\ SearchOrder[i].regex = tokens[k].full_match.re
           /\ SearchOrder[i].type = tokens[k].type

====
